---- MODULE Spec2Model ----
(***************************************************************************)
(* A model of the @systeric/pg-queue engine: the per-queue table kept by   *)
(* PostgresQueueRepository, the QueueMessage lifecycle rules, and the      *)
(* PgQueue consumption loop (start, notification wake-ups, try-consume,    *)
(* handler dispatch, the two background sweepers).                         *)
(*                                                                         *)
(* Time is a logical clock counted in seconds (the unit of the backoff).  *)
(* Every database statement is one step, except the two that the code     *)
(* itself splits or that take a row lock:                                 *)
(*   - dequeue: the sub-select takes the row lock (FOR UPDATE SKIP        *)
(*     LOCKED), the outer UPDATE writes PROCESSING and commits;           *)
(*   - nack: findById, then the guarded UPDATE (two statements).          *)
(* A step that resumes a suspended async function runs that function up   *)
(* to its next await, as the JavaScript event loop does.                  *)
(***************************************************************************)
EXTENDS Integers, Sequences, FiniteSets, Bags, TLC

(* ------------------------------ bounds -------------------------------- *)
\* rows the producers insert
MaxMsgs == 2
\* triggerConsumption calls that are suspended at the same time
MaxTasks == 2
\* the last second of the clock
MaxTime == 2
\* the largest concurrency option given to start
MaxConcurrency == 2
\* the largest configured visibility timeout, in seconds
MaxVisibilityTimeout == 1
\* the largest max_retries a producer asks for
MaxMaxRetries == 1
\* manual retry calls of the operator
MaxManualRetries == 1
\* the history counters stop counting above this value
MaxCount == 1
\* the largest max_retries of the message a handler is running on when the nack
\* scenario begins
MaxNackRetries == 7
\* withTransaction calls
MaxTxCalls == 2
\* tx.query writes inside one callback
MaxTxQueries == 1
\* execute calls on the one idempotency key
MaxCallers == 3
\* the largest ttlSeconds given to execute
MaxTtl == 2
\* the largest olderThanDays given to a cleanup
MaxDays == 1
\* pending timers and executing sweeps of one sweeper when start() is called
MaxTimers == 2
\* listener sessions held or asked for when start() is called
MaxSessions == 2

(* ------------------------- program constants -------------------------- *)
URGENT == 1
NORMAL == 5
MaxBackoffSeconds == 60

Ids == 1..MaxMsgs
Priorities == {URGENT, NORMAL}

PENDING == "PENDING"
PROCESSING == "PROCESSING"
COMPLETED == "COMPLETED"
FAILED == "FAILED"
DEAD_LETTER == "DEAD_LETTER"
\* no row with this id in the table
ABSENT == "ABSENT"

MessageStatus == {PENDING, PROCESSING, COMPLETED, FAILED, DEAD_LETTER}

\* a nullable column holds the empty set (SQL NULL) or one value
NULL == {}
NoError == "null"
HandlerError == "E"

\* how a repository call ends: it returns, or it throws one of these errors
Ok == "ok"
InvalidMessageStateError == "InvalidMessageStateError"
MessageNotFoundError == "MessageNotFoundError"
MessageRaceConditionError == "MessageRaceConditionError"
\* what the consumption loop emits as "error" events
HandlerExecutionError == "HandlerExecutionError"
BackgroundJobError == "BackgroundJobError"
\* QueueConfig.pollIntervalMs by default, the first backoff of a sweeper and
\* PgQueue.maxBackoffMs
PollIntervalMs == 5000
FirstBackoffMs == 1000
maxBackoffMs == 60000
NoHandlerRegisteredError == "NoHandlerRegisteredError"
\* the rejection of a query by the database
DatabaseFailure == "Database connection lost"

Min2(a, b) == IF a <= b THEN a ELSE b

RECURSIVE Pow2(_)
Pow2(n) == IF n <= 0 THEN 1 ELSE 2 * Pow2(n - 1)

\* a history counter that stops counting at MaxCount + 1
Bump(n) == IF n > MaxCount THEN n ELSE n + 1

VARIABLES
    table,          \* id -> row of the queue table
    locked,         \* id -> the row lock is held by the sub-select of a running dequeue
    now,            \* the clock, in seconds
    isRunning,      \* PgQueue.isRunning
    concurrency,    \* PgQueue.concurrency
    visibilityTimeout, \* QueueConfig.visibilityTimeoutMs, in seconds
    activeWorkers,  \* PgQueue.activeWorkers
    notifs,         \* notifications sent by the trigger and not yet delivered
    staleArmed,     \* PgQueue.staleCheckTimeout is pending
    retryArmed,     \* PgQueue.retryCheckTimeout is pending
    tasks,          \* the bag of suspended triggerConsumption calls, each
                    \* [pc: where it is suspended, msg: the id it selected or
                    \* holds (or 0), snap: the QueueMessage nack computed,
                    \* claimedAt: updated_at of the row dequeue returned]
    manualRetries,  \* retry(id) calls made so far
    grants,         \* id -> dequeue calls that returned the row since it last became PENDING
    acks,           \* id -> acks that changed the row since it was inserted or manually retried
    acksEver,       \* id -> acks that changed the row since it was inserted
    invoked,        \* id -> handler invocations for the message
    stopPc,         \* the last stop() call: "draining" while it awaits the in-flight
                    \* promises, then "returned" or "threw"; "idle" before any
    awaitedDone,    \* a promise the last stop() call awaits has been fulfilled
    restarted,      \* start() was called on a loop that was running
    txPc,           \* the withTransaction call: "idle" before it, "callback" while
                    \* the caller's function runs, "commit" and "rollback" before
                    \* those statements, "done" after the call
    txRows,         \* id -> queue row inserted by the open transaction, not committed
    txWrites,       \* writes of tx.query in the open transaction, not committed
    appRows,        \* committed rows of the caller's own table
    txError,        \* the error caught by withTransaction
    txOutcome,      \* how the last withTransaction call ended
    events,         \* "error" events emitted by the queue
    clients,        \* sessions checked out of the pool by withTransaction
    txLog,          \* one entry per finished withTransaction call
    txUsed,         \* ids QueueMessage.create generated inside withTransaction
    txIds,          \* ids tx.enqueue returned to the caller's function in this call
    errorListeners, \* listeners registered with queue.on("error", ...)
    escaped,        \* a promise of the consumption loop was rejected: an error
                    \* left processMessage or triggerConsumption
    emitted,        \* the errors the consumption loop emitted as "error" events
    idempotency_keys, \* the row of the idempotency table for the key the callers use
    sweeps,         \* sweeper -> [stray: its pending timers that the timeout
                    \* field no longer refers to, executing: its sweeps whose
                    \* UPDATE is awaited, backoff: staleCheckBackoffMs or
                    \* retryCheckBackoffMs, lastDelay: the delay of its last
                    \* setTimeout]
    listener,       \* [client: PgQueue.listenerClient is set, sessions: the
                    \* sessions start() took from the pool and nobody released,
                    \* connecting, subscribing: start() calls suspended in
                    \* pool.connect() and in the LISTEN statement]
    ownsPool,       \* PgQueue.ownsPool: create() made the pool itself
    poolEnded,      \* pool.end() has been called
    calls,          \* caller -> its execute call: where it is suspended, what its
                    \* operation returned or threw, and how the call ended
    opLog           \* one entry per run of an idempotent operation

vars == <<table, locked, now, isRunning, concurrency, visibilityTimeout,
          activeWorkers, notifs, staleArmed, retryArmed, tasks, manualRetries,
          grants, acks, acksEver, invoked, stopPc, awaitedDone, restarted,
          txPc, txRows, txWrites, appRows, txError, txOutcome, events, clients,
          txLog, txUsed, txIds, errorListeners, escaped, emitted,
          idempotency_keys, calls, opLog, ownsPool, poolEnded, sweeps, listener>>

runVars == <<isRunning, concurrency, visibilityTimeout, staleArmed, retryArmed, restarted>>
loopVars == <<runVars, stopPc, awaitedDone>>
histVars == <<grants, acks, acksEver, invoked>>
txVars == <<txPc, txRows, txWrites, appRows, txError, txOutcome, events, clients,
            txLog, txUsed, txIds, errorListeners>>
idemVars == <<idempotency_keys, calls, opLog>>
errVars == <<escaped, emitted>>
poolVars == <<ownsPool, poolEnded>>
lifeVars == <<sweeps, listener>>
callerVars == <<manualRetries, txVars, idemVars, errVars, poolVars, lifeVars>>
queueVars == <<table, locked, now, loopVars, activeWorkers, notifs, tasks,
               manualRetries, histVars, errVars, poolVars, lifeVars>>

NoRow == [status |-> ABSENT, priority |-> 0, retry_count |-> 0, max_retries |-> 0,
          last_error |-> NoError, next_retry_at |-> NULL, created_at |-> 0,
          updated_at |-> 0]

NoSnap == [status |-> ABSENT, retry_count |-> 0, last_error |-> NoError,
           next_retry_at |-> NULL]

Exists(m) == table[m].status # ABSENT

(* -------------------------- QueueMessage ------------------------------ *)

\* QueueMessage.create: a new PENDING message
create(priority, maxRetries, t) ==
    [status |-> PENDING, priority |-> priority, retry_count |-> 0,
     max_retries |-> maxRetries, last_error |-> NoError, next_retry_at |-> NULL,
     created_at |-> t, updated_at |-> t]

\* calculateNextRetryAt without the cap of maxBackoffSeconds
calculateNextRetryAtUncapped(retryCount, t) ==
    t + Pow2(retryCount - 1)

\* QueueMessage.calculateNextRetryAt, for the already incremented retry count
calculateNextRetryAt(retryCount, t) ==
    t + Min2(Pow2(retryCount - 1), MaxBackoffSeconds)

\* markAsFailed that dead-letters one attempt early (>= for >)
markAsFailedEarly(row, error, t) ==
    LET rc == row.retry_count + 1 IN
    IF rc >= row.max_retries
    THEN [status |-> DEAD_LETTER, retry_count |-> rc, last_error |-> error,
          next_retry_at |-> NULL]
    ELSE [status |-> FAILED, retry_count |-> rc, last_error |-> error,
          next_retry_at |-> {calculateNextRetryAt(rc, t)}]

\* QueueMessage.markAsFailed on a PROCESSING message read at time t
markAsFailed(row, error, t) ==
    LET rc == row.retry_count + 1 IN
    IF rc > row.max_retries
    THEN [status |-> DEAD_LETTER, retry_count |-> rc, last_error |-> error,
          next_retry_at |-> NULL]
    ELSE [status |-> FAILED, retry_count |-> rc, last_error |-> error,
          next_retry_at |-> {calculateNextRetryAt(rc, t)}]

(* --------------------- PostgresQueueRepository ------------------------ *)

\* ORDER BY priority ASC, created_at ASC
OrderedBefore(a, b) ==
    \/ table[a].priority < table[b].priority
    \/ /\ table[a].priority = table[b].priority
       /\ table[a].created_at < table[b].created_at

\* the sub-select without FOR UPDATE SKIP LOCKED: rows another dequeue has locked
\* are candidates too
ClaimableIgnoringLocks == {m \in Ids : table[m].status = PENDING}

\* WHERE status = PENDING ... FOR UPDATE SKIP LOCKED: the rows the sub-select may lock
Claimable == {m \in Ids : table[m].status = PENDING /\ ~locked[m]}

\* ... ORDER BY priority ASC, created_at ASC LIMIT 1: the rows that may come first
FirstClaimable == {m \in Claimable : \A o \in Claimable : ~OrderedBefore(o, m)}

\* the trigger: AFTER INSERT ... WHEN (NEW.status = 'PENDING') pg_notify, heard
\* by the listener session the running loop holds
NotifyOnInsert(row) ==
    IF row.status = PENDING /\ isRunning THEN 1 ELSE 0

\* enqueue: INSERT of a message made by QueueMessage.create
enqueue(m, priority, maxRetries) ==
    /\ ~Exists(m)
    /\ \A o \in Ids : o < m => Exists(o)
    /\ LET row == create(priority, maxRetries, now) IN
       /\ table' = [table EXCEPT ![m] = row]
       /\ notifs' = notifs + NotifyOnInsert(row)
    /\ grants' = [grants EXCEPT ![m] = 0]
    /\ UNCHANGED <<locked, now, loopVars, activeWorkers, tasks, callerVars,
                   acks, acksEver, invoked>>

Enqueue ==
    \E m \in Ids, p \in Priorities, r \in 1..MaxMaxRetries : enqueue(m, p, r)

\* ack without the status condition: UPDATE ... WHERE id = m
ackRowUnguarded(m) ==
    [table EXCEPT ![m].status = COMPLETED, ![m].updated_at = now]

\* ack: UPDATE ... SET status = COMPLETED WHERE id = m AND status = PROCESSING
ackRow(m) ==
    IF table[m].status = PROCESSING
    THEN [table EXCEPT ![m].status = COMPLETED, ![m].updated_at = now]
    ELSE table

\* ack does not look at the row count of its UPDATE: it always returns
ackResult(m) == Ok

\* nack, first part: findById throws when there is no row, markAsFailed throws
\* when the message read is not PROCESSING
nackFetchResult(m) ==
    IF ~Exists(m) THEN MessageNotFoundError
    ELSE IF table[m].status # PROCESSING THEN InvalidMessageStateError
    ELSE Ok

\* nack, second part: rowCount = 0 of the guarded UPDATE throws
nackUpdateResult(m) ==
    IF table[m].status = PROCESSING THEN Ok ELSE MessageRaceConditionError

\* nack's UPDATE without the status condition: WHERE id = m
nackRowUnguarded(m, s) ==
    [table EXCEPT ![m].status = s.status, ![m].retry_count = s.retry_count,
                  ![m].last_error = s.last_error,
                  ![m].next_retry_at = s.next_retry_at,
                  ![m].updated_at = now]

\* nack's UPDATE ... WHERE id = m AND status = PROCESSING, with the values of s
nackRow(m, s) ==
    IF table[m].status = PROCESSING
    THEN [table EXCEPT ![m].status = s.status, ![m].retry_count = s.retry_count,
                       ![m].last_error = s.last_error,
                       ![m].next_retry_at = s.next_retry_at,
                       ![m].updated_at = now]
    ELSE table

\* resetStaleMessages: WHERE status = PROCESSING AND updated_at < now - timeout
IsStale(m) ==
    table[m].status = PROCESSING /\ table[m].updated_at < now - visibilityTimeout

\* resetStaleMessages without the condition on updated_at
resetProcessingMessages ==
    [m \in Ids |-> IF table[m].status = PROCESSING
                   THEN [table[m] EXCEPT !.status = PENDING, !.updated_at = now]
                   ELSE table[m]]

resetStaleMessages ==
    [m \in Ids |-> IF IsStale(m)
                   THEN [table[m] EXCEPT !.status = PENDING, !.updated_at = now]
                   ELSE table[m]]

\* result.rowCount of resetStaleMessages
staleCount == Cardinality({m \in Ids : IsStale(m)})

\* resetRetryableMessages that leaves next_retry_at as it is
resetRetryableKeepingInstant ==
    [m \in Ids |-> IF table[m].status = FAILED /\ \E t \in table[m].next_retry_at : t <= now
                   THEN [table[m] EXCEPT !.status = PENDING, !.updated_at = now]
                   ELSE table[m]]

\* resetRetryableMessages: WHERE status = FAILED AND next_retry_at <= NOW()
IsRetryable(m) ==
    table[m].status = FAILED /\ \E t \in table[m].next_retry_at : t <= now

\* resetRetryableMessages with < for <=, and so one second late
resetOverdueMessages ==
    [m \in Ids |-> IF table[m].status = FAILED /\ \E t \in table[m].next_retry_at : t < now
                   THEN [table[m] EXCEPT !.status = PENDING, !.next_retry_at = NULL,
                                         !.updated_at = now]
                   ELSE table[m]]

resetRetryableMessages ==
    [m \in Ids |-> IF IsRetryable(m)
                   THEN [table[m] EXCEPT !.status = PENDING, !.next_retry_at = NULL,
                                         !.updated_at = now]
                   ELSE table[m]]

\* result.rowCount of resetRetryableMessages
retryableCount == Cardinality({m \in Ids : IsRetryable(m)})

\* retry: UPDATE ... WHERE id = m (no status condition)
retryRow(m) ==
    [table EXCEPT ![m].status = PENDING, ![m].retry_count = 0,
                  ![m].last_error = NoError, ![m].next_retry_at = NULL,
                  ![m].updated_at = now]

\* the grants of the rows that a statement turned into PENDING start again
RegrantAfter(next) ==
    [m \in Ids |-> IF next[m].status = PENDING /\ table[m].status # PENDING
                   THEN 0 ELSE grants[m]]

(* ------------------------------ PgQueue ------------------------------- *)

NewCall == [pc |-> "dequeue", msg |-> 0, snap |-> NoSnap, awaited |-> FALSE,
            claimedAt |-> 0]

Copies(x, n) == [e \in {x} |-> n]
Without(c) == tasks (-) Copies(c, 1)
Replaced(c, d) == Without(c) (+) Copies(d, 1)
TasksAt(where) == {c \in BagToSet(tasks) : c.pc = where}

\* triggerConsumption up to its await: with aw active workers the call either
\* returns at once or suspends in dequeue
triggerConsumption(aw) ==
    IF ~isRunning \/ aw >= concurrency THEN "idle" ELSE "dequeue"

\* a .finally callback that frees the worker and does not call triggerConsumption
finallyIdle(c) ==
    /\ activeWorkers' = activeWorkers - 1
    /\ tasks' = Without(c)

\* the .finally callback of the processing promise of call c: the counter goes
\* down and triggerConsumption is called again
finally(c) ==
    /\ activeWorkers' = activeWorkers - 1
    /\ tasks' = IF triggerConsumption(activeWorkers - 1) = "dequeue"
                THEN Replaced(c, NewCall)
                ELSE Without(c)

\* EventEmitter.emit("error", e): with no listener registered, emit throws e
emitThrows == errorListeners = 0

\* processingPromise of call c settles with result r: its .finally callback runs,
\* and a stop() that awaits it in Promise.all sees it fulfilled, or rejects with
\* its error at once
settle(c, r) ==
    /\ finally(c)
    /\ escaped' = (escaped \/ r # Ok)
    /\ IF stopPc = "draining" /\ c.awaited
       THEN /\ stopPc' = IF r = Ok THEN stopPc ELSE "threw"
            /\ awaitedDone' = (awaitedDone \/ r = Ok)
       ELSE UNCHANGED <<stopPc, awaitedDone>>

\* the two background jobs, and a job before its first timer
Sweepers == {"stale", "retry"}
NoSweep == [stray |-> 0, executing |-> 0, backoff |-> 0, lastDelay |-> 0]

\* staleCheckTimeout or retryCheckTimeout refers to a pending timer
armed(k) == IF k = "stale" THEN staleArmed ELSE retryArmed

\* scheduleStaleCheck or scheduleRetryCheck on a running loop, for the job
\* with record w: setTimeout with the poll interval plus the backoff; the
\* field is overwritten, so a timer it referred to stays pending unreferenced
scheduled(w, wasArmed) ==
    [w EXCEPT !.stray = IF wasArmed THEN @ + 1 ELSE @,
              !.lastDelay = PollIntervalMs + w.backoff]

\* no start() call has taken a session
NoListener == [client |-> FALSE, sessions |-> 0, connecting |-> 0, subscribing |-> 0]

\* start({concurrency: n}) on a queue that is not running, with nothing between
\* its awaits: the listener session is taken, the sweepers are armed and n
\* calls of triggerConsumption suspend in dequeue
start(n) ==
    /\ ~isRunning
    /\ isRunning' = TRUE
    /\ concurrency' = n
    /\ listener' = [listener EXCEPT !.client = TRUE, !.sessions = @ + 1]
    /\ sweeps' = [k \in Sweepers |-> scheduled(sweeps[k], armed(k))]
    /\ staleArmed' = TRUE
    /\ retryArmed' = TRUE
    /\ tasks' = tasks (+) Copies(NewCall, n)
    /\ UNCHANGED <<table, locked, now, visibilityTimeout, activeWorkers, notifs,
                   manualRetries, txVars, idemVars, errVars, poolVars, histVars,
                   stopPc, awaitedDone, restarted>>

Start == \E n \in 1..MaxConcurrency : start(n)

\* the listener's "notification" callback: one call of triggerConsumption
Notification ==
    /\ notifs > 0
    /\ notifs' = notifs - 1
    /\ IF triggerConsumption(activeWorkers) = "dequeue"
       THEN /\ BagCardinality(tasks) < MaxTasks
            /\ tasks' = tasks (+) Copies(NewCall, 1)
       ELSE tasks' = tasks
    /\ UNCHANGED <<table, locked, now, loopVars, activeWorkers, callerVars, histVars>>

\* dequeue, the sub-select: lock the first claimable row, or find none and
\* return null, on which triggerConsumption returns
DequeueSelect(c) ==
    /\ c.pc = "dequeue"
    /\ IF FirstClaimable = {}
       THEN /\ tasks' = Without(c)
            /\ UNCHANGED locked
       ELSE \E m \in FirstClaimable :
            /\ locked' = [locked EXCEPT ![m] = TRUE]
            /\ tasks' = Replaced(c, [c EXCEPT !.pc = "claiming", !.msg = m])
    /\ UNCHANGED <<table, now, loopVars, activeWorkers, notifs, callerVars, histVars>>

\* dequeue, the outer UPDATE ... SET status = PROCESSING WHERE id = m RETURNING *
claimRow(m) ==
    [table EXCEPT ![m].status = PROCESSING, ![m].updated_at = now]

\* dequeue returns the row to triggerConsumption, which counts the worker and
\* calls processMessage, which invokes the handler
DequeueReturn(c) ==
    /\ c.pc = "claiming"
    /\ table' = claimRow(c.msg)
    /\ locked' = [locked EXCEPT ![c.msg] = FALSE]
    /\ grants' = [grants EXCEPT ![c.msg] = Bump(@)]
    /\ invoked' = [invoked EXCEPT ![c.msg] = Bump(@)]
    /\ activeWorkers' = activeWorkers + 1
    /\ tasks' = Replaced(c, [c EXCEPT !.pc = "handler", !.claimedAt = now])
    /\ UNCHANGED <<now, loopVars, notifs, callerVars, acks, acksEver>>

\* the handler returns: processMessage acks, then the .finally callback runs
HandlerReturns(c) ==
    /\ c.pc = "handler"
    /\ table' = ackRow(c.msg)
    /\ acks' = [acks EXCEPT ![c.msg] = IF ackRow(c.msg) # table THEN Bump(@) ELSE @]
    /\ acksEver' = [acksEver EXCEPT ![c.msg] = IF ackRow(c.msg) # table THEN Bump(@) ELSE @]
    /\ settle(c, ackResult(c.msg))
    /\ UNCHANGED <<locked, now, runVars, notifs, manualRetries, txVars, idemVars,
                   poolVars, lifeVars,
                   emitted, grants, invoked>>

\* processMessage emits e as an "error" event and calls nack(id, error) for
\* call c: emit throws e when nobody listens; otherwise nack reads the row
\* (findById) and applies markAsFailed, which throws on a row that is not
\* PROCESSING
emitAndNack(c, e, error) ==
    /\ IF emitThrows
       THEN /\ settle(c, e)
            /\ UNCHANGED emitted
       ELSE /\ emitted' = emitted \cup {e}
            /\ IF nackFetchResult(c.msg) = Ok
               THEN /\ tasks' = Replaced(c, [c EXCEPT !.pc = "nacking",
                                   !.snap = markAsFailed(table[c.msg], error, now)])
                    /\ UNCHANGED <<activeWorkers, stopPc, awaitedDone, escaped>>
               ELSE settle(c, nackFetchResult(c.msg))
    /\ UNCHANGED <<table, locked, now, runVars, notifs, manualRetries, txVars,
                   idemVars, poolVars, lifeVars, histVars>>

\* the handler raises: the catch block of processMessage wraps the error in a
\* HandlerExecutionError, emits it and nacks with the handler's error
HandlerRaises(c) ==
    /\ c.pc = "handler"
    /\ emitAndNack(c, HandlerExecutionError, HandlerError)

\* the handler returns and the query of ack is rejected: the await of ack is
\* inside the try block of processMessage, so its catch block treats the
\* database error as a handler failure
AckFails(c) ==
    /\ c.pc = "handler"
    /\ emitAndNack(c, HandlerExecutionError, DatabaseFailure)

\* nack's guarded UPDATE, then (changed or not) the .finally callback
NackUpdate(c) ==
    /\ c.pc = "nacking"
    /\ table' = nackRow(c.msg, c.snap)
    /\ settle(c, nackUpdateResult(c.msg))
    /\ UNCHANGED <<locked, now, runVars, notifs, manualRetries, txVars, idemVars,
                   poolVars, lifeVars,
                   emitted, histVars>>

\* the query of dequeue is rejected: await this.dequeue() throws inside
\* triggerConsumption, which has no try block, so the promise of the call, which
\* its callers discard with void, is rejected
DequeueFails(c) ==
    /\ c.pc = "dequeue"
    /\ tasks' = Without(c)
    /\ escaped' = TRUE
    /\ UNCHANGED <<table, locked, now, loopVars, activeWorkers, notifs,
                   manualRetries, txVars, idemVars, poolVars, lifeVars, emitted, histVars>>

\* dequeue returns a row whose type has no registered handler: triggerConsumption
\* counts the worker and calls processMessage, which finds no handler
DequeueReturnUnhandled(c) ==
    /\ c.pc = "claiming"
    /\ table' = claimRow(c.msg)
    /\ locked' = [locked EXCEPT ![c.msg] = FALSE]
    /\ grants' = [grants EXCEPT ![c.msg] = Bump(@)]
    /\ activeWorkers' = activeWorkers + 1
    /\ tasks' = Replaced(c, [c EXCEPT !.pc = "nohandler", !.claimedAt = now])
    /\ UNCHANGED <<now, loopVars, notifs, callerVars, acks, acksEver, invoked>>

\* processMessage without a handler: emit NoHandlerRegisteredError and nack with
\* that error
NoHandler(c) ==
    /\ c.pc = "nohandler"
    /\ emitAndNack(c, NoHandlerRegisteredError, NoHandlerRegisteredError)

\* a stale-check timer that is not armed again after it fired
StaleSweepOnce ==
    /\ isRunning /\ staleArmed
    /\ table' = resetStaleMessages
    /\ grants' = RegrantAfter(resetStaleMessages)
    /\ staleArmed' = FALSE
    /\ sweeps' = [sweeps EXCEPT !["stale"].backoff = 0]
    /\ UNCHANGED <<locked, now, isRunning, concurrency, visibilityTimeout, retryArmed,
                   restarted, stopPc, awaitedDone, activeWorkers, notifs, tasks,
                   manualRetries, txVars, idemVars, errVars, poolVars, listener,
                   acks, acksEver, invoked>>

\* the stale-check timer fires on a running loop and nothing happens during
\* its sweep: resetStaleMessages, the backoff is cleared, the timer is armed
\* again
StaleSweep ==
    /\ isRunning /\ staleArmed
    /\ table' = resetStaleMessages
    /\ grants' = RegrantAfter(resetStaleMessages)
    /\ sweeps' = [sweeps EXCEPT !["stale"] = scheduled([@ EXCEPT !.backoff = 0], FALSE)]
    /\ UNCHANGED <<locked, now, loopVars, activeWorkers, notifs, tasks,
                   manualRetries, txVars, idemVars, errVars, poolVars, listener,
                   acks, acksEver, invoked>>

\* the retry-check timer fires on a running loop and nothing happens during
\* its sweep: resetRetryableMessages, the backoff is cleared, the timer is
\* armed again
RetrySweep ==
    /\ isRunning /\ retryArmed
    /\ table' = resetRetryableMessages
    /\ grants' = RegrantAfter(resetRetryableMessages)
    /\ sweeps' = [sweeps EXCEPT !["retry"] = scheduled([@ EXCEPT !.backoff = 0], FALSE)]
    /\ UNCHANGED <<locked, now, loopVars, activeWorkers, notifs, tasks,
                   manualRetries, txVars, idemVars, errVars, poolVars, listener,
                   acks, acksEver, invoked>>

\* retry(id) by an operator; the UPDATE waits for a row lock held by a dequeue
retry(m) ==
    /\ Exists(m)
    /\ ~locked[m]
    /\ manualRetries < MaxManualRetries
    /\ manualRetries' = manualRetries + 1
    /\ table' = retryRow(m)
    /\ grants' = RegrantAfter(retryRow(m))
    /\ acks' = [acks EXCEPT ![m] = 0]
    /\ UNCHANGED <<locked, now, loopVars, activeWorkers, notifs, tasks,
                   acksEver, invoked, txVars, idemVars, poolVars, lifeVars, errVars>>

Retry == \E m \in Ids : retry(m)

\* olderThanDays * 24 * 60 * 60 seconds
DaySeconds == 86400

\* the threshold date of a cleanup: Date.now() - olderThanDays days
thresholdDate(olderThanDays) == now - olderThanDays * DaySeconds

\* a DELETE that does not look at the status
deleteOlder(s, threshold) ==
    [m \in Ids |-> IF Exists(m) /\ table[m].created_at < threshold
                   THEN NoRow
                   ELSE table[m]]

\* DELETE ... WHERE status = s AND created_at < threshold, on the table
deleteWhere(s, threshold) ==
    [m \in Ids |-> IF table[m].status = s /\ table[m].created_at < threshold
                   THEN NoRow
                   ELSE table[m]]

\* cleanupCompleted(olderThanDays) and cleanupDeadLetters(olderThanDays); the
\* index of a deleted row is free for a message enqueued later
cleanupRows(s, olderThanDays) ==
    /\ table' = deleteWhere(s, thresholdDate(olderThanDays))
    /\ UNCHANGED <<locked, now, loopVars, activeWorkers, notifs, tasks, callerVars,
                   histVars>>

cleanupCompleted == \E d \in 0..MaxDays : cleanupRows(COMPLETED, d)

cleanupDeadLetters == \E d \in 0..MaxDays : cleanupRows(DEAD_LETTER, d)

Tick ==
    /\ now < MaxTime
    /\ now' = now + 1
    /\ UNCHANGED <<table, locked, loopVars, activeWorkers, notifs, tasks,
                   callerVars, histVars>>

(* ------------------------ PgQueue.withTransaction ---------------------- *)

\* errors of this section: what the caller's function throws, what a rejected
\* ROLLBACK throws, and the code of TransactionError
CallerError == "CallerError"
RollbackError == "RollbackError"
TRANSACTION_ERROR == "TRANSACTION_ERROR"

\* how a withTransaction call ends: it returns the callback's result, or it
\* throws an error with a code, a message and a cause
NoOutcome == [code |-> "none", message |-> "", cause |-> NoError]
Returned == [code |-> Ok, message |-> "", cause |-> NoError]

\* new TransactionError(message, cause)
TransactionError(message, cause) ==
    [code |-> TRANSACTION_ERROR, message |-> message, cause |-> cause]

NoTransaction ==
    /\ txPc = "idle"
    /\ txRows = [m \in Ids |-> NoRow]
    /\ txWrites = 0
    /\ appRows = 0
    /\ txError = NoError
    /\ txOutcome = NoOutcome
    /\ events = <<>>
    /\ clients = 0
    /\ txLog = <<>>
    /\ txUsed = {}
    /\ txIds = {}

\* queue.on("error", listener) by the application
OnError ==
    /\ errorListeners = 0
    /\ errorListeners' = 1
    /\ UNCHANGED <<queueVars, idemVars, txPc, txRows, txWrites, appRows, txError,
                   txOutcome, events, clients, txLog, txUsed, txIds>>

\* withTransaction up to the call of the callback: pool.connect() and BEGIN
withTransaction ==
    /\ txPc \in {"idle", "done"}
    /\ Len(txLog) < MaxTxCalls
    /\ clients' = clients + 1
    /\ txPc' = "callback"
    /\ txRows' = [m \in Ids |-> NoRow]
    /\ txWrites' = 0
    /\ txIds' = {}
    /\ txError' = NoError
    /\ txOutcome' = NoOutcome
    /\ UNCHANGED <<queueVars, idemVars, appRows, events, txLog, txUsed,
                   errorListeners>>

\* tx.enqueue that leaves out { client }: the INSERT runs on the pool, outside
\* the transaction
txEnqueueViaPool(m, priority, maxRetries) ==
    /\ txPc = "callback"
    /\ m \notin txUsed
    /\ \A o \in Ids : o < m => o \in txUsed
    /\ LET row == create(priority, maxRetries, now) IN
       /\ table' = [table EXCEPT ![m] = row]
       /\ notifs' = notifs + NotifyOnInsert(row)
    /\ txUsed' = txUsed \cup {m}
    /\ txIds' = txIds \cup {m}
    /\ UNCHANGED <<locked, now, loopVars, activeWorkers, tasks, manualRetries,
                   histVars, idemVars, poolVars, lifeVars, errVars, txPc, txRows,
                   txWrites, appRows,
                   txError, txOutcome, events, clients, txLog, errorListeners>>

\* tx.enqueue inside the callback: QueueMessage.create, then the INSERT of
\* repository.enqueue on the session of the transaction; other sessions do not
\* see the row before COMMIT
txEnqueue(m, priority, maxRetries) ==
    /\ txPc = "callback"
    /\ m \notin txUsed
    /\ \A o \in Ids : o < m => o \in txUsed
    /\ txRows' = [txRows EXCEPT ![m] = create(priority, maxRetries, now)]
    /\ txUsed' = txUsed \cup {m}
    /\ txIds' = txIds \cup {m}
    /\ UNCHANGED <<queueVars, idemVars, txPc, txWrites, appRows, txError,
                   txOutcome, events, clients, txLog, errorListeners>>

TxEnqueue ==
    \E m \in Ids, p \in Priorities, r \in 1..MaxMaxRetries : txEnqueue(m, p, r)

\* tx.query inside the callback: a write to a table of the caller
TxQuery ==
    /\ txPc = "callback"
    /\ txWrites < MaxTxQueries
    /\ txWrites' = txWrites + 1
    /\ UNCHANGED <<queueVars, idemVars, txPc, txRows, appRows, txError, txOutcome,
                   events, clients, txLog, txUsed, txIds, errorListeners>>

\* the callback throws: control enters the catch block
CallbackRaises ==
    /\ txPc = "callback"
    /\ txError' = CallerError
    /\ txPc' = "rollback"
    /\ UNCHANGED <<queueVars, idemVars, txRows, txWrites, appRows, txOutcome,
                   events, clients, txLog, txUsed, txIds, errorListeners>>

\* the callback returns
CallbackReturns ==
    /\ txPc = "callback"
    /\ txPc' = "commit"
    /\ UNCHANGED <<queueVars, idemVars, txRows, txWrites, appRows, txError,
                   txOutcome, events, clients, txLog, txUsed, txIds, errorListeners>>

\* the rows the open transaction inserted into the queue table
Inserted == {m \in Ids : txRows[m] # NoRow}

\* COMMIT, return result, and client.release() of the finally block: the rows
\* and the caller's writes become visible together and the trigger's
\* notifications are delivered
Commit ==
    /\ txPc = "commit"
    /\ table' = [m \in Ids |-> IF m \in Inserted THEN txRows[m] ELSE table[m]]
    /\ notifs' = notifs + Cardinality({m \in Inserted : NotifyOnInsert(txRows[m]) = 1})
    /\ appRows' = appRows + txWrites
    /\ txRows' = [m \in Ids |-> NoRow]
    /\ txWrites' = 0
    /\ txOutcome' = Returned
    /\ clients' = clients - 1
    /\ txLog' = Append(txLog, [raised |-> FALSE, ids |-> txIds, writes |-> txWrites,
                               rollbackFailed |-> FALSE, listened |-> errorListeners > 0,
                               outcome |-> Returned])
    /\ txPc' = "done"
    /\ UNCHANGED <<locked, now, loopVars, activeWorkers, tasks, manualRetries,
                   histVars, idemVars, poolVars, lifeVars, errVars, txError, events, txUsed, txIds,
                   errorListeners>>

\* the error a catch block that prefers the latest error would wrap
surfacedLatest(error, rollbackError) ==
    IF rollbackError # NoError THEN rollbackError ELSE error

\* the error the catch block wraps in "Transaction failed": the one it caught
surfaced(error, rollbackError) == error

\* the catch block and the finally block: ROLLBACK; when it is rejected the
\* session is gone and the server discards the open transaction, and the queue
\* emits "error"; then throw "Transaction failed" and client.release()
rollback(ok) ==
    /\ txPc = "rollback"
    /\ txRows' = [m \in Ids |-> NoRow]
    /\ txWrites' = 0
    /\ LET rollbackError == IF ok THEN NoError ELSE RollbackError
           failed == TransactionError("Failed to rollback transaction", RollbackError)
           outcome == IF ~ok /\ emitThrows
                      THEN failed
                      ELSE TransactionError("Transaction failed",
                                            surfaced(txError, rollbackError))
       IN /\ events' = IF ~ok /\ ~emitThrows THEN Append(events, failed) ELSE events
          /\ txOutcome' = outcome
          /\ txLog' = Append(txLog, [raised |-> TRUE, ids |-> txIds, writes |-> txWrites,
                                     rollbackFailed |-> ~ok,
                                     listened |-> errorListeners > 0,
                                     outcome |-> outcome])
    /\ clients' = clients - 1
    /\ txPc' = "done"
    /\ UNCHANGED <<queueVars, idemVars, appRows, txError, txUsed, txIds,
                   errorListeners>>

Rollback == \E ok \in BOOLEAN : rollback(ok)

(* ------------------------- IdempotencyHandler -------------------------- *)

Callers == 1..MaxCallers

\* what an operation may return: nothing, null, a JSON value, a Date
Undefined == "undefined"
JsNull == "JS null"
Value == "value"
ADate == "Date"
DateString == "ISO string of Date"
OpResults == {Undefined, JsNull, Value, ADate}

\* what an operation may throw: an Error, or the DatabaseError of a unique
\* violation raised by a statement of its own
OpError == "OpError"
OpUniqueViolation == "op's DatabaseError 23505"
OpErrors == {OpError, OpUniqueViolation}
InsertConflict == "DatabaseError 23505 of the claim"

\* pgError.code
code(error) == IF error \in {OpUniqueViolation, InsertConflict} THEN "23505" ELSE "undefined"

IdempotencyKeyInProcessError == "IdempotencyKeyInProcessError"
IdempotencyClaimError == "IdempotencyClaimError"
UniqueConstraintError == "UniqueConstraintError"
ConnectionError == "ConnectionError"

\* selectError instanceof IdempotencyError: the classes that extend
\* IdempotencyError; UniqueConstraintError and ConnectionError extend DatabaseError
instanceofIdempotencyError(error) ==
    error \in {IdempotencyKeyInProcessError, IdempotencyClaimError}

\* SET result = $1 with JSON.stringify(result): the content of the JSONB column;
\* JSON.stringify(undefined) is undefined, which is sent as SQL NULL
stringify(result) ==
    CASE result = Undefined -> NULL
      [] result = JsNull -> {"null"}
      [] result = Value -> {"\"value\""}
      [] result = ADate -> {"\"2026-01-01T00:00:00.000Z\""}

\* row.result of the SELECT: SQL NULL is null, a JSONB value is parsed
parse(column) ==
    CASE column = NULL -> JsNull
      [] column = {"null"} -> JsNull
      [] column = {"\"value\""} -> Value
      [] column = {"\"2026-01-01T00:00:00.000Z\""} -> DateString

NoKey == [present |-> FALSE, result |-> NULL, expires_at |-> 0]
NoResult == [code |-> "none", first |-> FALSE, value |-> NoError]
IdleCall == [pc |-> "idle", result |-> Undefined, error |-> NoError,
             outcome |-> NoResult]

NoExecute ==
    /\ idempotency_keys = NoKey
    /\ calls = [c \in Callers |-> IdleCall]
    /\ opLog = <<>>

\* execute up to the first await that can suspend for long: expiresAt, and the
\* INSERT that claims the key; a unique violation sends control to the catch
\* block, which goes on to the SELECT
executeInsert(c, ttlSeconds) ==
    /\ calls[c].pc = "idle"
    /\ IF ~idempotency_keys.present
       THEN /\ idempotency_keys' = [present |-> TRUE, result |-> NULL,
                                    expires_at |-> now + ttlSeconds]
            /\ calls' = [calls EXCEPT ![c].pc = "op"]
            /\ opLog' = Append(opLog, [caller |-> c, start |-> now,
                                       expires_at |-> now + ttlSeconds])
       ELSE /\ code(InsertConflict) = "23505"
            /\ calls' = [calls EXCEPT ![c].pc = "select"]
            /\ UNCHANGED <<idempotency_keys, opLog>>
    /\ UNCHANGED <<queueVars, txVars>>

ExecuteInsert == \E c \in Callers, ttl \in 1..MaxTtl : executeInsert(c, ttl)

\* await operation() is fulfilled
opReturns(c, result) ==
    /\ calls[c].pc = "op"
    /\ calls' = [calls EXCEPT ![c].pc = "update", ![c].result = result]
    /\ UNCHANGED <<queueVars, txVars, idempotency_keys, opLog>>

OpReturns == \E c \in Callers, r \in OpResults : opReturns(c, r)

\* UPDATE ... SET result = $1 WHERE idempotency_key = $2, then the return of
\* the first execution
storeResult(c) ==
    /\ calls[c].pc = "update"
    /\ idempotency_keys' =
          IF idempotency_keys.present
          THEN [idempotency_keys EXCEPT !.result = stringify(calls[c].result)]
          ELSE idempotency_keys
    /\ calls' = [calls EXCEPT ![c].pc = "done",
                              ![c].outcome = [code |-> Ok, first |-> TRUE,
                                              value |-> calls[c].result]]
    /\ UNCHANGED <<queueVars, txVars, opLog>>

StoreResult == \E c \in Callers : storeResult(c)

\* await operation() is rejected: the catch block tests the code of the error
opRaises(c, error) ==
    /\ calls[c].pc = "op"
    /\ calls' = IF code(error) # "23505"
                THEN [calls EXCEPT ![c].pc = "done", ![c].error = error,
                                   ![c].outcome = [code |-> IdempotencyClaimError,
                                                   first |-> FALSE, value |-> error]]
                ELSE [calls EXCEPT ![c].pc = "select", ![c].error = error]
    /\ UNCHANGED <<queueVars, txVars, idempotency_keys, opLog>>

OpRaises == \E c \in Callers, e \in OpErrors : opRaises(c, e)

\* catch (selectError) around the conflict branch: what is thrown inside it is
\* rethrown when it is an IdempotencyError and wrapped in a ConnectionError
\* otherwise
catchSelectError(outcome) ==
    IF outcome.code = Ok \/ instanceofIdempotencyError(outcome.code)
    THEN outcome
    ELSE [code |-> ConnectionError, first |-> FALSE, value |-> outcome.code]

\* the catch block after a unique violation: SELECT result ... WHERE
\* idempotency_key = $1 AND expires_at > NOW()
conflictSelect(c) ==
    /\ calls[c].pc = "select"
    /\ LET found == idempotency_keys.present /\ idempotency_keys.expires_at > now
           result == parse(idempotency_keys.result)
           inner ==
               IF found
               THEN IF result = JsNull
                    THEN [code |-> IdempotencyKeyInProcessError, first |-> FALSE,
                          value |-> NoError]
                    ELSE [code |-> Ok, first |-> FALSE, value |-> result]
               ELSE [code |-> UniqueConstraintError, first |-> FALSE,
                     value |-> InsertConflict]
       IN calls' = [calls EXCEPT ![c].pc = "done", ![c].outcome = catchSelectError(inner)]
    /\ UNCHANGED <<queueVars, txVars, idempotency_keys, opLog>>

ConflictSelect == \E c \in Callers : conflictSelect(c)

\* cleanup: DELETE ... WHERE expires_at <= NOW()
cleanup ==
    /\ idempotency_keys.present
    /\ idempotency_keys.expires_at <= now
    /\ idempotency_keys' = NoKey
    /\ UNCHANGED <<queueVars, txVars, calls, opLog>>

NoCalls ==
    /\ NoTransaction
    /\ NoExecute
    /\ escaped = FALSE
    /\ emitted = {}

(* --------------------------- specification ---------------------------- *)

\* a queue after PgQueue.create and registerHandler, not started
Constructed ==
    /\ table = [m \in Ids |-> NoRow]
    /\ locked = [m \in Ids |-> FALSE]
    /\ now = 0
    /\ isRunning = FALSE
    /\ concurrency = 1
    /\ visibilityTimeout \in 1..MaxVisibilityTimeout
    /\ activeWorkers = 0
    /\ notifs = 0
    /\ staleArmed = FALSE
    /\ retryArmed = FALSE
    /\ sweeps = [k \in Sweepers |-> NoSweep]
    /\ listener = NoListener
    /\ tasks = EmptyBag
    /\ manualRetries = 0
    /\ NoCalls
    /\ grants = [m \in Ids |-> 0]
    /\ acks = [m \in Ids |-> 0]
    /\ acksEver = [m \in Ids |-> 0]
    /\ invoked = [m \in Ids |-> 0]
    /\ stopPc = "idle"
    /\ awaitedDone = FALSE
    /\ restarted = FALSE

\* create() was given the application's pool, which is open
CallerPool == ownsPool = FALSE /\ poolEnded = FALSE

\* create() was given no pool and made its own from the connection string
OwnPool == ownsPool = TRUE /\ poolEnded = FALSE

\* the application has attached a listener for "error" events, as the README
\* shows
Init == Constructed /\ errorListeners = 1 /\ CallerPool

\* the application has attached no listener for "error" events yet
InitBare == Constructed /\ errorListeners = 0 /\ CallerPool

Next ==
    \/ Enqueue
    \/ Start
    \/ Notification
    \/ \E c \in BagToSet(tasks) : DequeueSelect(c)
    \/ \E c \in BagToSet(tasks) : DequeueReturn(c)
    \/ \E c \in BagToSet(tasks) : HandlerReturns(c)
    \/ \E c \in BagToSet(tasks) : HandlerRaises(c)
    \/ \E c \in BagToSet(tasks) : NackUpdate(c)
    \/ StaleSweep
    \/ RetrySweep
    \/ Retry
    \/ Tick

Spec == Init /\ [][Next]_vars

(* ------------------------- the nack scenario -------------------------- *)

\* a message that failed rc times before and is PROCESSING again
reclaimed(priority, maxRetries, rc) ==
    [create(priority, maxRetries, 0) EXCEPT
        !.status = PROCESSING, !.retry_count = rc,
        !.last_error = IF rc > 0 THEN HandlerError ELSE NoError]

\* a running loop of concurrency 1 whose handler is executing on message 1,
\* which has failed 0..max_retries times before
InitNack ==
    /\ \E r \in 1..MaxNackRetries, rc \in 0..MaxNackRetries :
          /\ rc <= r
          /\ table = [m \in Ids |-> IF m = 1 THEN reclaimed(NORMAL, r, rc) ELSE NoRow]
    /\ locked = [m \in Ids |-> FALSE]
    /\ now = 0
    /\ isRunning = TRUE
    /\ concurrency = 1
    /\ visibilityTimeout \in 1..MaxVisibilityTimeout
    /\ activeWorkers = 1
    /\ notifs = 0
    /\ staleArmed = TRUE
    /\ retryArmed = TRUE
    /\ sweeps = [k \in Sweepers |-> scheduled(NoSweep, FALSE)]
    /\ listener = [NoListener EXCEPT !.client = TRUE, !.sessions = 1]
    /\ tasks = Copies([NewCall EXCEPT !.pc = "handler", !.msg = 1], 1)
    /\ manualRetries = 0
    /\ NoCalls
    /\ errorListeners = 1
    /\ CallerPool
    /\ grants = [m \in Ids |-> IF m = 1 THEN 1 ELSE 0]
    /\ acks = [m \in Ids |-> 0]
    /\ acksEver = [m \in Ids |-> 0]
    /\ invoked = [m \in Ids |-> IF m = 1 THEN 1 ELSE 0]
    /\ stopPc = "idle"
    /\ awaitedDone = FALSE
    /\ restarted = FALSE

\* the handler raises and nack runs to its end; nothing else touches the row
NextNack ==
    \/ \E c \in BagToSet(tasks) : HandlerRaises(c)
    \/ \E c \in BagToSet(tasks) : NackUpdate(c)
    \/ \E c \in BagToSet(tasks) : DequeueSelect(c)
    \/ Tick

SpecNack == InitNack /\ [][NextNack]_vars

(* ---------------------- the failing-ack scenario ---------------------- *)

\* the handler of the nack scenario returns or raises, and the query of ack
\* may be rejected
NextAck ==
    \/ \E c \in BagToSet(tasks) : HandlerReturns(c)
    \/ \E c \in BagToSet(tasks) : AckFails(c)
    \/ \E c \in BagToSet(tasks) : HandlerRaises(c)
    \/ \E c \in BagToSet(tasks) : NackUpdate(c)
    \/ \E c \in BagToSet(tasks) : DequeueSelect(c)
    \/ Tick

SpecAck == InitNack /\ [][NextAck]_vars

(* ------------------ the retry and dead-letter scenario ---------------- *)

\* a FAILED row whose retry instant is still ahead
AwaitsRetry(m) ==
    table[m].status = FAILED /\ \E t \in table[m].next_retry_at : t > now

\* time passes: up to MaxTime, and on to every retry instant that is still ahead
TickOn ==
    /\ now < MaxTime \/ \E m \in Ids : AwaitsRetry(m)
    /\ now' = now + 1
    /\ UNCHANGED <<table, locked, loopVars, activeWorkers, notifs, tasks,
                   callerVars, histVars>>

\* the one message of the scenario is enqueued
EnqueueOne == \E p \in Priorities, r \in 1..MaxMaxRetries : enqueue(1, p, r)

\* one loop, one message, no further enqueue, a handler that always raises
NextRetry ==
    \/ EnqueueOne
    \/ Start
    \/ Notification
    \/ \E c \in BagToSet(tasks) : DequeueSelect(c)
    \/ \E c \in BagToSet(tasks) : DequeueReturn(c)
    \/ \E c \in BagToSet(tasks) : HandlerRaises(c)
    \/ \E c \in BagToSet(tasks) : NackUpdate(c)
    \/ StaleSweep
    \/ RetrySweep
    \/ TickOn

\* the event loop runs every callback that is ready, every query returns, the
\* timers fire and time passes
FairRetry ==
    /\ WF_vars(EnqueueOne)
    /\ WF_vars(Start)
    /\ WF_vars(Notification)
    /\ WF_vars(\E c \in BagToSet(tasks) : DequeueSelect(c))
    /\ WF_vars(\E c \in BagToSet(tasks) : DequeueReturn(c))
    /\ WF_vars(\E c \in BagToSet(tasks) : HandlerRaises(c))
    /\ WF_vars(\E c \in BagToSet(tasks) : NackUpdate(c))
    /\ WF_vars(StaleSweep)
    /\ WF_vars(RetrySweep)
    /\ WF_vars(TickOn)

SpecRetry == Init /\ [][NextRetry]_vars /\ FairRetry

(* --------------------- the crash recovery scenario -------------------- *)

\* message 1 was claimed at time 0 by a consumer that crashed; no loop is running
InitCrash ==
    /\ \E p \in Priorities, r \in 1..MaxMaxRetries, rc \in 0..MaxMaxRetries :
          /\ rc <= r
          /\ table = [m \in Ids |-> IF m = 1 THEN reclaimed(p, r, rc) ELSE NoRow]
    /\ locked = [m \in Ids |-> FALSE]
    /\ now = 0
    /\ isRunning = FALSE
    /\ concurrency = 1
    /\ visibilityTimeout \in 1..MaxVisibilityTimeout
    /\ activeWorkers = 0
    /\ notifs = 0
    /\ staleArmed = FALSE
    /\ retryArmed = FALSE
    /\ sweeps = [k \in Sweepers |-> NoSweep]
    /\ listener = NoListener
    /\ tasks = EmptyBag
    /\ manualRetries = 0
    /\ NoCalls
    /\ errorListeners = 1
    /\ CallerPool
    /\ grants = [m \in Ids |-> IF m = 1 THEN 1 ELSE 0]
    /\ acks = [m \in Ids |-> 0]
    /\ acksEver = [m \in Ids |-> 0]
    /\ invoked = [m \in Ids |-> 0]
    /\ stopPc = "idle"
    /\ awaitedDone = FALSE
    /\ restarted = FALSE

\* a loop is started afterwards; its handler succeeds; no enqueue, no notification
NextCrash ==
    \/ Start
    \/ \E c \in BagToSet(tasks) : DequeueSelect(c)
    \/ \E c \in BagToSet(tasks) : DequeueReturn(c)
    \/ \E c \in BagToSet(tasks) : HandlerReturns(c)
    \/ StaleSweep
    \/ RetrySweep
    \/ Tick

FairCrash ==
    /\ WF_vars(Start)
    /\ WF_vars(\E c \in BagToSet(tasks) : DequeueSelect(c))
    /\ WF_vars(\E c \in BagToSet(tasks) : DequeueReturn(c))
    /\ WF_vars(\E c \in BagToSet(tasks) : HandlerReturns(c))
    /\ WF_vars(StaleSweep)
    /\ WF_vars(RetrySweep)
    /\ WF_vars(Tick)

SpecCrash == InitCrash /\ [][NextCrash]_vars /\ FairCrash

(* ----------------------- start and stop calls ------------------------- *)

\* start({concurrency: n}) without the isRunning test
startUnchecked(n) ==
    /\ restarted' = (restarted \/ isRunning)
    /\ isRunning' = TRUE
    /\ concurrency' = n
    /\ staleArmed' = TRUE
    /\ retryArmed' = TRUE
    /\ listener' = [listener EXCEPT !.client = TRUE, !.sessions = @ + 1]
    /\ sweeps' = [k \in Sweepers |-> scheduled(sweeps[k], armed(k))]
    /\ tasks' = tasks (+) Copies(NewCall, n)
    /\ UNCHANGED <<table, locked, now, visibilityTimeout, activeWorkers, notifs,
                   manualRetries, txVars, idemVars, errVars, poolVars, histVars,
                   stopPc, awaitedDone>>

\* start({concurrency: n}) whatever the state of the loop: on a running loop it
\* returns at once
startCall(n) ==
    IF isRunning
    THEN /\ restarted' = TRUE
         /\ UNCHANGED <<table, locked, now, isRunning, concurrency, visibilityTimeout,
                        activeWorkers, notifs, staleArmed, retryArmed, tasks,
                        callerVars, histVars, stopPc, awaitedDone>>
    ELSE start(n)

StartCall == \E n \in 1..MaxConcurrency : startCall(n)

\* the calls whose processingPromise is in inflightMessages
InFlight(c) == c.pc \in {"handler", "nacking"}

\* Array.from(this.inflightMessages): the promises this stop() call awaits
Snapshot ==
    LET mark(c) == [c EXCEPT !.awaited = InFlight(c)] IN
    [d \in {mark(c) : c \in BagToSet(tasks)} |->
        BagCardinality([c \in {e \in BagToSet(tasks) : mark(e) = d} |-> CopiesIn(c, tasks)])]

\* the promises of the snapshot that have not settled
Awaited == {c \in BagToSet(tasks) : c.awaited /\ InFlight(c)}

\* stop() without the wait for the in-flight promises
NoWait == TRUE

\* the wait of stop(): Promise.all over the snapshot is fulfilled
AllSettled == Awaited = {}

\* stop() on a running loop, up to its await: the flag is cleared, the sweep
\* timers are cancelled, the in-flight promises are collected
stop ==
    /\ isRunning
    /\ stopPc # "draining"
    /\ isRunning' = FALSE
    /\ staleArmed' = FALSE
    /\ retryArmed' = FALSE
    /\ stopPc' = "draining"
    /\ awaitedDone' = FALSE
    /\ tasks' = Snapshot
    /\ UNCHANGED <<table, locked, now, concurrency, visibilityTimeout, activeWorkers,
                   notifs, callerVars, histVars, restarted>>

\* the listener block of stop(): if listenerClient is set, its session is
\* released and the field is cleared, whether UNLISTEN succeeded or not
released ==
    IF listener.client
    THEN [listener EXCEPT !.client = FALSE, !.sessions = @ - 1]
    ELSE listener

\* stop() after its await: the listener is released, an owned pool is closed,
\* the call returns
stopReturns ==
    /\ stopPc = "draining"
    /\ AllSettled
    /\ stopPc' = "returned"
    /\ listener' = released
    /\ poolEnded' = (poolEnded \/ ownsPool)
    /\ UNCHANGED <<table, locked, now, runVars, activeWorkers, notifs, tasks,
                   manualRetries, txVars, idemVars, errVars, ownsPool, sweeps,
                   histVars, awaitedDone>>

\* stop() after its await when the UNLISTEN statement fails: the finally block
\* releases the listener and the error leaves stop() before the pool is ended
stopUnlistenFails ==
    /\ stopPc = "draining"
    /\ AllSettled
    /\ stopPc' = "threw"
    /\ listener' = released
    /\ UNCHANGED <<table, locked, now, runVars, activeWorkers, notifs, tasks,
                   manualRetries, txVars, idemVars, errVars, poolVars, sweeps,
                   histVars, awaitedDone>>

\* a queue that is started, and stopped once, while producers enqueue; start()
\* is called again only before the stop() call
NextLifecycle ==
    \/ Enqueue
    \/ stopPc = "idle" /\ StartCall
    \/ stopPc = "idle" /\ stop
    \/ stopReturns
    \/ Notification
    \/ \E c \in BagToSet(tasks) : DequeueSelect(c)
    \/ \E c \in BagToSet(tasks) : DequeueReturn(c)
    \/ \E c \in BagToSet(tasks) : HandlerReturns(c)
    \/ \E c \in BagToSet(tasks) : HandlerRaises(c)
    \/ \E c \in BagToSet(tasks) : NackUpdate(c)
    \/ StaleSweep
    \/ RetrySweep
    \/ Tick

SpecLifecycle == Init /\ [][NextLifecycle]_vars

(* ------------------------ the cleanup scenario ------------------------- *)

\* a loop of concurrency 1 at work, manual retries, and an operator who runs
\* the cleanups
NextCleanup ==
    \/ Enqueue
    \/ start(1)
    \/ \E c \in BagToSet(tasks) : DequeueSelect(c)
    \/ \E c \in BagToSet(tasks) : DequeueReturn(c)
    \/ \E c \in BagToSet(tasks) : HandlerReturns(c)
    \/ \E c \in BagToSet(tasks) : HandlerRaises(c)
    \/ \E c \in BagToSet(tasks) : NackUpdate(c)
    \/ StaleSweep
    \/ RetrySweep
    \/ Retry
    \/ Tick
    \/ cleanupCompleted
    \/ cleanupDeadLetters

SpecCleanup == Init /\ [][NextCleanup]_vars

(* ------------------------ the re-claim scenario ------------------------ *)

\* one message and a loop whose handlers return, raise or hang while the
\* sweeps run and time passes on to every retry instant
NextReclaim ==
    \/ EnqueueOne
    \/ Start
    \/ \E c \in BagToSet(tasks) : DequeueSelect(c)
    \/ \E c \in BagToSet(tasks) : DequeueReturn(c)
    \/ \E c \in BagToSet(tasks) : HandlerReturns(c)
    \/ \E c \in BagToSet(tasks) : HandlerRaises(c)
    \/ \E c \in BagToSet(tasks) : NackUpdate(c)
    \/ StaleSweep
    \/ RetrySweep
    \/ TickOn

SpecReclaim == Init /\ [][NextReclaim]_vars

(* ------------------------- the sweep scenario -------------------------- *)

\* a running loop whose handlers return, raise or hang while time passes
NextSweeps ==
    \/ Enqueue
    \/ Start
    \/ Notification
    \/ \E c \in BagToSet(tasks) : DequeueSelect(c)
    \/ \E c \in BagToSet(tasks) : DequeueReturn(c)
    \/ \E c \in BagToSet(tasks) : HandlerReturns(c)
    \/ \E c \in BagToSet(tasks) : HandlerRaises(c)
    \/ \E c \in BagToSet(tasks) : NackUpdate(c)
    \/ StaleSweep
    \/ RetrySweep
    \/ Tick

\* each sweep arms its timer again in its finally block, so a sweep that has
\* work to do is run after a finite delay when its UPDATE is not rejected;
\* nothing is assumed of the handlers
SpecSweeps ==
    /\ Init
    /\ [][NextSweeps]_vars
    /\ WF_vars(StaleSweep)
    /\ WF_vars(RetrySweep)

(* ------------------------ the shutdown scenario ------------------------ *)

\* create() with the application's pool, or with a connection string only
InitPool == Constructed /\ errorListeners = 1 /\ (CallerPool \/ OwnPool)

\* a queue that is started and stopped once while it consumes; the UNLISTEN
\* statement of stop() may fail
NextStop ==
    \/ Enqueue
    \/ stopPc = "idle" /\ Start
    \/ stopPc = "idle" /\ stop
    \/ stopReturns
    \/ stopUnlistenFails
    \/ Notification
    \/ \E c \in BagToSet(tasks) : DequeueSelect(c)
    \/ \E c \in BagToSet(tasks) : DequeueReturn(c)
    \/ \E c \in BagToSet(tasks) : HandlerReturns(c)

SpecStop == InitPool /\ [][NextStop]_vars

(* ----------------------- the backlog scenario ------------------------- *)

\* time passes, but no handler takes longer than the visibility timeout
TickPrompt ==
    /\ now < MaxTime
    /\ \A m \in Ids : table[m].status = PROCESSING =>
                         table[m].updated_at >= now + 1 - visibilityTimeout
    /\ now' = now + 1
    /\ UNCHANGED <<table, locked, loopVars, activeWorkers, notifs, tasks,
                   callerVars, histVars>>

\* producers enqueue before and after start(); every handler returns normally
NextDrain ==
    \/ Enqueue
    \/ Start
    \/ Notification
    \/ \E c \in BagToSet(tasks) : DequeueSelect(c)
    \/ \E c \in BagToSet(tasks) : DequeueReturn(c)
    \/ \E c \in BagToSet(tasks) : HandlerReturns(c)
    \/ StaleSweep
    \/ RetrySweep
    \/ TickPrompt

\* the loop is started, notifications are delivered, queries and handlers return
FairDrain ==
    /\ WF_vars(Start)
    /\ WF_vars(Notification)
    /\ WF_vars(\E c \in BagToSet(tasks) : DequeueSelect(c))
    /\ WF_vars(\E c \in BagToSet(tasks) : DequeueReturn(c))
    /\ WF_vars(\E c \in BagToSet(tasks) : HandlerReturns(c))
    /\ WF_vars(StaleSweep)
    /\ WF_vars(RetrySweep)
    /\ WF_vars(TickPrompt)

SpecDrain == Init /\ [][NextDrain]_vars /\ FairDrain

(* ------------------------ the handler scenario ------------------------- *)

\* a loop whose handlers may raise, whose messages may have no handler and whose
\* dequeue may fail, with or without a listener for "error" events
NextHandlers ==
    \/ Enqueue
    \/ OnError
    \/ Start
    \/ Notification
    \/ \E c \in BagToSet(tasks) : DequeueFails(c)
    \/ \E c \in BagToSet(tasks) : DequeueSelect(c)
    \/ \E c \in BagToSet(tasks) : DequeueReturn(c)
    \/ \E c \in BagToSet(tasks) : DequeueReturnUnhandled(c)
    \/ \E c \in BagToSet(tasks) : HandlerReturns(c)
    \/ \E c \in BagToSet(tasks) : HandlerRaises(c)
    \/ \E c \in BagToSet(tasks) : NoHandler(c)
    \/ \E c \in BagToSet(tasks) : NackUpdate(c)
    \/ StaleSweep
    \/ RetrySweep
    \/ Tick

SpecHandlers == InitBare /\ [][NextHandlers]_vars

(* ------------------------ the outbox scenario -------------------------- *)

\* producers enqueue through withTransaction only, while a loop consumes
NextOutbox ==
    \/ OnError
    \/ withTransaction
    \/ TxEnqueue
    \/ TxQuery
    \/ CallbackRaises
    \/ CallbackReturns
    \/ Commit
    \/ Rollback
    \/ Start
    \/ Notification
    \/ \E c \in BagToSet(tasks) : DequeueSelect(c)
    \/ \E c \in BagToSet(tasks) : DequeueReturn(c)
    \/ \E c \in BagToSet(tasks) : HandlerReturns(c)
    \/ Tick

SpecOutbox == InitBare /\ [][NextOutbox]_vars

(* ---------------------- the idempotency scenario ----------------------- *)

\* callers that execute an operation under the same key, and the periodic cleanup
NextExecute ==
    \/ ExecuteInsert
    \/ OpReturns
    \/ StoreResult
    \/ OpRaises
    \/ ConflictSelect
    \/ cleanup
    \/ Tick

SpecExecute == Init /\ [][NextExecute]_vars

(* ------------------------- the sweeper timers -------------------------- *)

\* the UPDATE of sweeper k
sweepOf(k) == IF k = "stale" THEN resetStaleMessages ELSE resetRetryableMessages

\* the timer that staleCheckTimeout or retryCheckTimeout refers to fires: its
\* callback starts the sweep without a look at isRunning
TimerFires(k) ==
    /\ armed(k)
    /\ sweeps' = [sweeps EXCEPT ![k].executing = @ + 1]
    /\ staleArmed' = (staleArmed /\ k # "stale")
    /\ retryArmed' = (retryArmed /\ k # "retry")
    /\ UNCHANGED <<table, locked, now, isRunning, concurrency, visibilityTimeout,
                   restarted, stopPc, awaitedDone, activeWorkers, notifs, tasks,
                   manualRetries, txVars, idemVars, errVars, poolVars, listener,
                   histVars>>

\* a timer of sweeper k that no field refers to any more fires
StrayTimerFires(k) ==
    /\ sweeps[k].stray > 0
    /\ sweeps' = [sweeps EXCEPT ![k].stray = @ - 1, ![k].executing = @ + 1]
    /\ UNCHANGED <<table, locked, now, loopVars, activeWorkers, notifs, tasks,
                   manualRetries, txVars, idemVars, errVars, poolVars, listener,
                   histVars>>

\* the finally block of a sweep of k that leaves the job as w: scheduleStaleCheck
\* or scheduleRetryCheck, which returns at once when the loop is not running
rescheduled(k, w) ==
    /\ sweeps' = [sweeps EXCEPT ![k] = IF isRunning THEN scheduled(w, armed(k)) ELSE w]
    /\ staleArmed' = (staleArmed \/ (isRunning /\ k = "stale"))
    /\ retryArmed' = (retryArmed \/ (isRunning /\ k = "retry"))

\* the backoff after a failed sweep with backoff b
nextBackoff(b) == Min2(IF b = 0 THEN FirstBackoffMs ELSE b * 2, maxBackoffMs)

\* a sweep of k whose UPDATE succeeds: the backoff is cleared
SweepDone(k) ==
    /\ sweeps[k].executing > 0
    /\ table' = sweepOf(k)
    /\ grants' = RegrantAfter(sweepOf(k))
    /\ rescheduled(k, [sweeps[k] EXCEPT !.executing = @ - 1, !.backoff = 0])
    /\ UNCHANGED <<locked, now, isRunning, concurrency, visibilityTimeout,
                   restarted, stopPc, awaitedDone, activeWorkers, notifs, tasks,
                   manualRetries, txVars, idemVars, errVars, poolVars, listener,
                   acks, acksEver, invoked>>

\* a sweep of k whose UPDATE is rejected: the catch block emits a
\* BackgroundJobError and then doubles the backoff; with no 'error' listener
\* the emit throws, the assignment is not reached and the error leaves the
\* timer callback as an unhandled rejection. The finally block runs either way
SweepFailed(k) ==
    /\ sweeps[k].executing > 0
    /\ IF emitThrows
       THEN /\ escaped' = TRUE
            /\ UNCHANGED emitted
            /\ rescheduled(k, [sweeps[k] EXCEPT !.executing = @ - 1])
       ELSE /\ emitted' = emitted \cup {BackgroundJobError}
            /\ UNCHANGED escaped
            /\ rescheduled(k, [sweeps[k] EXCEPT !.executing = @ - 1,
                                                !.backoff = nextBackoff(@)])
    /\ UNCHANGED <<table, locked, now, isRunning, concurrency, visibilityTimeout,
                   restarted, stopPc, awaitedDone, activeWorkers, notifs, tasks,
                   manualRetries, txVars, idemVars, poolVars, listener, histVars>>

\* the timers of sweeper k that are pending and its sweeps that are executing
Timers(k) == (IF armed(k) THEN 1 ELSE 0) + sweeps[k].stray + sweeps[k].executing

\* start() by a caller that has awaited its stop() call
startAgain ==
    /\ stopPc # "draining"
    /\ \A k \in Sweepers : Timers(k) < MaxTimers
    /\ BagCardinality(tasks) < MaxTasks
    /\ start(1)

\* a loop of one worker on an empty queue that is started and stopped again
\* and again while its sweeps run, succeed and fail; the application may
\* listen for errors
NextTimers ==
    \/ OnError
    \/ startAgain
    \/ stop
    \/ stopReturns
    \/ \E c \in BagToSet(tasks) : DequeueSelect(c)
    \/ \E k \in Sweepers : TimerFires(k)
    \/ \E k \in Sweepers : StrayTimerFires(k)
    \/ \E k \in Sweepers : SweepDone(k)
    \/ \E k \in Sweepers : SweepFailed(k)

SpecTimers == InitBare /\ [][NextTimers]_vars

(* ------------------------ the listener session ------------------------ *)

\* start() calls that are suspended in one of the two awaits of start()
Starting == listener.connecting + listener.subscribing

\* start({concurrency: n}) up to its first await: the isRunning test, the
\* concurrency, the call of pool.connect()
startCalled(n) ==
    /\ ~isRunning
    /\ BagCardinality(tasks) + Starting < MaxTasks
    /\ \A k \in Sweepers : Timers(k) + Starting < MaxTimers
    /\ listener.sessions + Starting < MaxSessions
    /\ concurrency' = n
    /\ listener' = [listener EXCEPT !.connecting = @ + 1]
    /\ UNCHANGED <<table, locked, now, isRunning, visibilityTimeout, staleArmed,
                   retryArmed, restarted, stopPc, awaitedDone, activeWorkers, notifs,
                   tasks, manualRetries, txVars, idemVars, errVars, poolVars, sweeps,
                   histVars>>

\* pool.connect() of a start() call is rejected: the call rejects
startConnectFails ==
    /\ listener.connecting > 0
    /\ listener' = [listener EXCEPT !.connecting = @ - 1]
    /\ UNCHANGED <<table, locked, now, loopVars, activeWorkers, notifs, tasks,
                   manualRetries, txVars, idemVars, errVars, poolVars, sweeps,
                   histVars>>

\* pool.connect() of a start() call returns a session: it is stored in
\* listenerClient, whatever the field held, and LISTEN is sent
startConnected ==
    /\ listener.connecting > 0
    /\ listener' = [listener EXCEPT !.connecting = @ - 1, !.sessions = @ + 1,
                                    !.client = TRUE, !.subscribing = @ + 1]
    /\ UNCHANGED <<table, locked, now, loopVars, activeWorkers, notifs, tasks,
                   manualRetries, txVars, idemVars, errVars, poolVars, sweeps,
                   histVars>>

\* the LISTEN statement of a start() call is rejected: the call rejects with
\* the session still in listenerClient
startListenFails ==
    /\ listener.subscribing > 0
    /\ listener' = [listener EXCEPT !.subscribing = @ - 1]
    /\ UNCHANGED <<table, locked, now, loopVars, activeWorkers, notifs, tasks,
                   manualRetries, txVars, idemVars, errVars, poolVars, sweeps,
                   histVars>>

\* the rest of a start() call after LISTEN: the flag is set, both sweepers are
\* scheduled and this.concurrency calls of triggerConsumption suspend in dequeue
startListening ==
    /\ listener.subscribing > 0
    /\ listener' = [listener EXCEPT !.subscribing = @ - 1]
    /\ isRunning' = TRUE
    /\ sweeps' = [k \in Sweepers |-> scheduled(sweeps[k], armed(k))]
    /\ staleArmed' = TRUE
    /\ retryArmed' = TRUE
    /\ tasks' = tasks (+) Copies(NewCall, concurrency)
    /\ UNCHANGED <<table, locked, now, concurrency, visibilityTimeout, restarted,
                   stopPc, awaitedDone, activeWorkers, notifs, manualRetries,
                   txVars, idemVars, errVars, poolVars, histVars>>

\* start() and stop() calls in any order on an empty queue, a start() before
\* an earlier one has finished included; connect, LISTEN and UNLISTEN may fail
NextListener ==
    \/ startCalled(1)
    \/ startConnectFails
    \/ startConnected
    \/ startListenFails
    \/ startListening
    \/ stop
    \/ stopReturns
    \/ stopUnlistenFails
    \/ \E c \in BagToSet(tasks) : DequeueSelect(c)
    \/ \E k \in Sweepers : TimerFires(k)
    \/ \E k \in Sweepers : StrayTimerFires(k)
    \/ \E k \in Sweepers : SweepDone(k)

SpecListener == Init /\ [][NextListener]_vars

(* ------------------------------ claims -------------------------------- *)

Rows == {m \in Ids : Exists(m)}

\* the handlers that are executing: calls that hold a message they have neither
\* acked nor nacked yet, counted with their copies
Executing == BagCardinality([c \in TasksAt("handler") \cup TasksAt("nacking") |-> CopiesIn(c, tasks)])

\* C1: concurrent dequeue calls never return the same row for the same
\* PENDING -> PROCESSING transition: a row is returned at most once between two
\* moments at which it becomes PENDING, each return is the step that turns a
\* PENDING row into PROCESSING, and each such transition is a return.
C1_ExactlyOneClaimer ==
    /\ [](\A m \in Ids : grants[m] <= 1)
    /\ [][\A m \in Rows :
            /\ grants'[m] > grants[m] =>
                 table[m].status = PENDING /\ table'[m].status = PROCESSING
            /\ (table[m].status = PENDING /\ table'[m].status = PROCESSING) =>
                 grants'[m] = grants[m] + 1]_vars

\* two calls that ran their dequeue at the same time hold two different rows
C1_Witness ==
    \E a, b \in TasksAt("handler") :
        /\ a.msg # b.msg
        /\ grants[a.msg] = 1 /\ grants[b.msg] = 1
        /\ table[a.msg].status = PROCESSING /\ table[b.msg].status = PROCESSING

\* C4: in a loop started with concurrency = c, at most c handlers are executing
\* and at most c claimed messages are not yet acked or nacked.
C4_ConcurrencyBound ==
    isRunning => (activeWorkers <= concurrency /\ Executing <= concurrency)

\* the transitions of the automatic operations, as <<from, to>>
AutomaticTransitions ==
    {<<PENDING, PROCESSING>>, <<PROCESSING, COMPLETED>>, <<PROCESSING, FAILED>>,
     <<PROCESSING, DEAD_LETTER>>, <<FAILED, PENDING>>, <<PROCESSING, PENDING>>}

\* a step of retry(id)
IsManualRetry == manualRetries' # manualRetries

StatusChanged(m) == Exists(m) /\ table'[m].status # table[m].status

\* C6 as claimed: every status change is one of the listed transitions; manual
\* retry only moves FAILED and DEAD_LETTER rows to PENDING.
C6_OnlyListedTransitions ==
    [][\A m \in Ids : StatusChanged(m) =>
          IF IsManualRetry
          THEN table[m].status \in {FAILED, DEAD_LETTER} /\ table'[m].status = PENDING
          ELSE <<table[m].status, table'[m].status>> \in AutomaticTransitions]_vars

\* C6 amended: every status change is PENDING->PROCESSING (claim),
\* PROCESSING->COMPLETED (ack), PROCESSING->FAILED or ->DEAD_LETTER (nack),
\* FAILED->PENDING (retry promotion), PROCESSING->PENDING (stale reset), or a
\* manual retry, which moves a row of any status to PENDING.
C6_TransitionsWithRetryFromAny ==
    [][\A m \in Ids : StatusChanged(m) =>
          IF IsManualRetry
          THEN table'[m].status = PENDING
          ELSE <<table[m].status, table'[m].status>> \in AutomaticTransitions]_vars

\* a COMPLETED row was manually retried and is PENDING again
C6_Witness ==
    \E m \in Rows : table[m].status = PENDING /\ acksEver[m] = 1 /\ acks[m] = 0

\* C7: for every row, next_retry_at is non-null exactly when the status is FAILED.
C7_NextRetryIffFailed ==
    \A m \in Rows : (table[m].next_retry_at # NULL) <=> (table[m].status = FAILED)

\* a FAILED row with its retry instant, beside a row that was promoted again
C7_Witness ==
    \E m, o \in Rows :
        /\ table[m].status = FAILED /\ table[m].next_retry_at # NULL
        /\ table[o].status = PENDING /\ table[o].retry_count > 0
        /\ table[o].last_error = HandlerError /\ table[o].next_retry_at = NULL

Selects(c, m) ==
    /\ c.pc = "dequeue" /\ ~locked[m] /\ locked'[m]
    /\ tasks' = Replaced(c, [c EXCEPT !.pc = "claiming", !.msg = m])

\* m comes first among all PENDING rows
FirstPending(m) ==
    \A o \in Ids : table[o].status = PENDING => ~OrderedBefore(o, m)

\* C10: a dequeue that runs with no concurrent claimer returns the PENDING row
\* with the smallest priority number and, among those, the earliest created_at;
\* and every dequeue of a loop with concurrency 1 does.
C10_PriorityThenFifo ==
    [][\A c \in BagToSet(tasks), m \in Ids :
         (Selects(c, m) /\ ((\A o \in Ids : ~locked[o]) \/ concurrency = 1))
            => FirstPending(m)]_vars

\* backoff(k) = min(2^(k-1), 60) seconds
backoff(k) == Min2(Pow2(k - 1), 60)

\* C5: nack of a PROCESSING message increments its retry_count by exactly one
\* and records the error text; if the new retry_count > max_retries the row
\* becomes DEAD_LETTER with next_retry_at = null, otherwise FAILED with
\* next_retry_at = now + backoff(retry_count), now being the instant at which
\* nack computes the failure.
C5_NackEffect ==
    [][\A c \in TasksAt("handler") \cup TasksAt("nacking") :
         LET old == table[c.msg]
             k == old.retry_count + 1
         IN
         /\ (old.status = PROCESSING /\ HandlerRaises(c)) =>
               \A d \in BagToSet(tasks') :
                   (d.pc = "nacking" /\ CopiesIn(d, tasks') > CopiesIn(d, tasks)) =>
                   d.snap.next_retry_at =
                       IF k > old.max_retries THEN NULL ELSE {now + backoff(k)}
         /\ (old.status = PROCESSING /\ NackUpdate(c)) =>
               /\ table'[c.msg].retry_count = k
               /\ table'[c.msg].last_error = HandlerError
               /\ table'[c.msg].status =
                       IF k > old.max_retries THEN DEAD_LETTER ELSE FAILED
               /\ table'[c.msg].next_retry_at = c.snap.next_retry_at]_vars

\* C2: with one running loop, no further enqueue and a handler that always
\* raises, the message is re-delivered after each retry promotion and eventually
\* ends in DEAD_LETTER with retry_count = max_retries + 1 and next_retry_at =
\* null, after max_retries + 1 handler invocations.
C2_EndsInDeadLetter ==
    <>(/\ table[1].status = DEAD_LETTER
       /\ table[1].retry_count = table[1].max_retries + 1
       /\ table[1].next_retry_at = NULL
       /\ invoked[1] = table[1].max_retries + 1)

\* C3: a message left in PROCESSING by a crashed consumer is, once the
\* visibility timeout has elapsed, reset to PENDING by the stale sweep of a loop
\* started afterwards, delivered to that loop's handler once more and ends in
\* COMPLETED, without any further enqueue or notification.
C3_RecoversAfterCrash ==
    <>(table[1].status = COMPLETED /\ invoked[1] = 1)

\* C11: ack changes a row only if it is PROCESSING, moving it to COMPLETED and
\* setting updated_at; on a row in any other status, or on an id with no row, it
\* changes nothing; in every case it raises no error.
C11_AckGuarded ==
    /\ [](\A m \in Ids :
            /\ ackResult(m) = Ok
            /\ table[m].status # PROCESSING => ackRow(m) = table
            /\ table[m].status = PROCESSING =>
                  ackRow(m) = [table EXCEPT ![m].status = COMPLETED,
                                            ![m].updated_at = now])
    /\ [][\A c \in TasksAt("handler") :
            (HandlerReturns(c) /\ table[c.msg].status # PROCESSING) => table' = table]_vars

\* a handler returned for a message the stale sweep had already reset: its ack
\* left the PENDING row alone
C11_Witness ==
    \E m \in Rows :
        /\ table[m].status = PENDING /\ invoked[m] = 1 /\ grants[m] = 0
        /\ TasksAt("handler") = {} /\ TasksAt("nacking") = {} /\ acksEver[m] = 0
        /\ table[m].retry_count = 0 /\ manualRetries = 0 /\ activeWorkers = 0

\* C12: nack on an existing message whose row is not PROCESSING fails with
\* MessageRaceConditionError and leaves the row unchanged, whether the row left
\* PROCESSING before nack read it or between nack's read and its UPDATE.
C12_NackRaceLost ==
    /\ [](\A c \in TasksAt("handler") :
            (Exists(c.msg) /\ table[c.msg].status # PROCESSING) =>
                nackFetchResult(c.msg) = MessageRaceConditionError)
    /\ [](\A c \in TasksAt("nacking") :
            table[c.msg].status # PROCESSING =>
                nackUpdateResult(c.msg) = MessageRaceConditionError)
    /\ [][\A c \in TasksAt("handler") \cup TasksAt("nacking") :
            ((HandlerRaises(c) \/ NackUpdate(c)) /\ table[c.msg].status # PROCESSING)
                => table' = table]_vars

\* C13: whenever a stop() call returns, every handler invocation that was in
\* flight when stop() was called has run to completion and its ack or nack has
\* been applied; the listener is released and the pool closed only then.
C13_GracefulDrain ==
    [][(stopPc = "draining" /\ stopPc' = "returned") =>
          \A c \in BagToSet(tasks) : c.awaited => c.pc \notin {"handler", "nacking"}]_vars

\* stop() returned after one of the handlers it waited for had completed
C13_Witness ==
    stopPc = "returned" /\ awaitedDone /\ \E m \in Rows : table[m].status = COMPLETED

\* C14: once stop() has been called the loop claims no further message and
\* invokes no further handler, try-consume attempts that were already started
\* included.
C14_NoClaimAfterStop ==
    [][\A m \in Ids :
         \/ table[m].status # PROCESSING /\ table'[m].status = PROCESSING
         \/ invoked'[m] # invoked[m]
         => stopPc = "idle"]_vars

\* C15: a start() call on a running loop is a no-op: the loop's flag,
\* concurrency, sweep timers and try-consume attempts, and the table, are as
\* before, and every message is still handed out once.
C15_StartIdempotent ==
    /\ [][(isRunning /\ StartCall) =>
            UNCHANGED <<table, locked, now, isRunning, concurrency, visibilityTimeout,
                        activeWorkers, notifs, staleArmed, retryArmed, tasks,
                        callerVars, histVars, stopPc, awaitedDone>>]_vars
    /\ [](\A m \in Ids : grants[m] <= 1)

\* start() was called again on the running loop, and a message enqueued after
\* that was handled once
C15_Witness ==
    /\ restarted /\ isRunning
    /\ \E m \in Rows : table[m].status = COMPLETED /\ invoked[m] = 1 /\ table[m].created_at > 0

\* C16: with a running loop of any concurrency and handlers that return
\* normally within the visibility timeout, every message that is PENDING at
\* start() or enqueued while the loop runs is eventually handed to its handler
\* exactly once and ends in COMPLETED; nothing stays pending or processing.
C16_BacklogDrains ==
    /\ \A m \in Ids : Exists(m) ~> [](table[m].status = COMPLETED /\ invoked[m] = 1)
    /\ [](\A m \in Ids : invoked[m] <= 1)

\* two messages, one enqueued after start(), were both handled once by a loop
\* of concurrency 1
C16_Witness ==
    /\ isRunning /\ concurrency = 1 /\ tasks = EmptyBag
    /\ \A m \in Ids : table[m].status = COMPLETED /\ invoked[m] = 1
    /\ \E m \in Ids : table[m].created_at > 0

\* the writes of tx.query that the finished calls whose callback returned made
RECURSIVE CommittedWrites(_)
CommittedWrites(log) ==
    IF log = <<>> THEN 0
    ELSE (IF Head(log).raised THEN 0 ELSE Head(log).writes) + CommittedWrites(Tail(log))

C18_RollbackFailure ==
    /\ \A i \in DOMAIN txLog :
          txLog[i].raised /\ txLog[i].rollbackFailed =>
             /\ txLog[i].outcome = TransactionError("Transaction failed", CallerError)
             /\ \E j \in DOMAIN events : events[j].cause = RollbackError
    /\ txPc \in {"idle", "done"} => clients = 0

\* the callers whose operation is running or has returned a result that is not
\* stored yet
Operating == {c \in Callers : calls[c].pc \in {"op", "update"}}

\* the callers that were told isFirstExecution = true
Firsts == {c \in Callers : calls[c].outcome.code = Ok /\ calls[c].outcome.first}

\* the callers whose operation threw
Thrown == {c \in Callers : calls[c].error # NoError}

\* the execute call of c ends after a conflict on the key
Conflicted(c) == calls[c].pc = "select" /\ calls'[c].pc = "done"

\* C19: for concurrent execute calls on one key, the operation runs at most
\* once before the key's expires_at; no more callers see first = true than
\* operations ran; and a caller that lost the claim before expiry gets
\* first = false with the result the first caller got, or InProcess while the
\* operation is still running (or after it threw, C20).
C19_Idempotent ==
    /\ [](\A i, j \in DOMAIN opLog : i < j => opLog[j].start >= opLog[i].expires_at)
    /\ [](Cardinality(Firsts) <= Len(opLog))
    /\ [][\A c \in Callers :
            /\ Conflicted(c)
            /\ idempotency_keys.present /\ idempotency_keys.expires_at > now
            =>
               \/ /\ calls'[c].outcome.code = Ok
                  /\ ~calls'[c].outcome.first
                  /\ \E d \in Firsts : calls[d].outcome.value = calls'[c].outcome.value
               \/ /\ calls'[c].outcome.code = IdempotencyKeyInProcessError
                  /\ Operating # {} \/ Thrown # {}]_vars

\* C20: when the operation throws, the caller gets the operation's error (as
\* the error or as its cause), the key's row stays claimed with result = null
\* until it is cleaned up, and a later execute before expiry fails with
\* InProcess and does not run the operation.
C20_OpFailure ==
    /\ [](\A c \in Thrown : calls[c].pc = "done" => calls[c].outcome.value = calls[c].error)
    /\ [](\A c \in Thrown :
            idempotency_keys.present /\ opLog[Len(opLog)].caller = c =>
               idempotency_keys.result = NULL)
    /\ [][\A c \in Callers :
            /\ Conflicted(c)
            /\ idempotency_keys.expires_at > now
            /\ opLog[Len(opLog)].caller \in Thrown
            => /\ calls'[c].outcome.code = IdempotencyKeyInProcessError
               /\ opLog' = opLog]_vars

\* the key has a row that is past its expires_at
Expired == idempotency_keys.present /\ idempotency_keys.expires_at <= now

\* C21: an execute call on a key whose row has expired claims the key and runs
\* the operation, whether or not cleanup has removed the row.
C21_ExpiredKeyReusable ==
    [][\A c \in Callers :
         calls[c].pc = "idle" /\ calls'[c].pc # "idle" /\ Expired
         => calls'[c].pc = "op" /\ Len(opLog') = Len(opLog) + 1]_vars

\* C22: when the claiming INSERT of execute hits the primary key and the
\* SELECT finds no live row for the key, the call fails with
\* UniqueConstraintError and with no other kind of error.
C22_UniqueConstraintKind ==
    [][\A c \in Callers :
         /\ Conflicted(c)
         /\ calls[c].error = NoError
         /\ ~(idempotency_keys.present /\ idempotency_keys.expires_at > now)
         => calls'[c].outcome.code = UniqueConstraintError]_vars

\* the suspended calls that hold a message
Holding == {c \in BagToSet(tasks) : c.msg \in Ids}

\* C23: a handler that raises never makes an error leave the consumption
\* loop: the failure becomes a nack of the message (which may lose its race),
\* and the worker slot is freed.
C23_HandlerErrorsContained ==
    /\ [][\A c \in Holding :
            \/ HandlerRaises(c)
            \/ c.pc = "nacking" /\ c.snap.last_error = HandlerError /\ NackUpdate(c)
            => escaped' = escaped]_vars
    /\ [][\A c \in Holding :
            HandlerRaises(c) =>
               \/ \E d \in BagToSet(tasks') : d.pc = "nacking" /\ d.msg = c.msg
               \/ nackFetchResult(c.msg) # Ok /\ activeWorkers' = activeWorkers - 1]_vars

\* C24: for a claimed message whose type has no handler the loop emits an
\* error event naming the type and nacks the message with that error, so that
\* it becomes FAILED or DEAD_LETTER, and invokes no handler.
C24_NoHandlerNacked ==
    /\ [][\A c \in Holding :
            NoHandler(c) =>
               /\ NoHandlerRegisteredError \in emitted'
               /\ \E d \in BagToSet(tasks') :
                     /\ d.pc = "nacking" /\ d.msg = c.msg
                     /\ d.snap.last_error = NoHandlerRegisteredError
                     /\ d.snap.status \in {FAILED, DEAD_LETTER}]_vars
    /\ [][\A c \in Holding :
            c.pc = "nacking" /\ c.snap.last_error = NoHandlerRegisteredError
            /\ NackUpdate(c)
            => table'[c.msg].status \in {FAILED, DEAD_LETTER}]_vars
    /\ [][\A c \in Holding : DequeueReturnUnhandled(c) \/ NoHandler(c)
            => invoked' = invoked]_vars

\* C25: when the dequeue of a try-consume attempt fails, the loop emits an
\* error event, invokes no handler for the attempt, and the failure does not
\* leave the loop.
C25_DequeueFailureContained ==
    [][\A c \in BagToSet(tasks) :
         DequeueFails(c) =>
            /\ emitted' # emitted
            /\ escaped' = escaped
            /\ invoked' = invoked]_vars

\* C28: once stop() has run on a running loop, the pool has been ended if and
\* only if the loop created it, also when the UNLISTEN statement of stop() fails
C28_PoolClosedIffOwned ==
    stopPc \in {"returned", "threw"} => (poolEnded <=> ownsPool)

\* the rows a step changed, and what a sweep may do to a row: make it PENDING
\* and keep its retry count, last error, priority, retry limit and creation time
Changed == {m \in Ids : table'[m] # table[m]}

SweptTo(old, new) ==
    /\ new.status = PENDING
    /\ new.retry_count = old.retry_count
    /\ new.last_error = old.last_error
    /\ new.priority = old.priority
    /\ new.max_retries = old.max_retries
    /\ new.created_at = old.created_at

\* C30: the stale sweep changes exactly the PROCESSING rows whose updated_at is
\* older than now minus the visibility timeout, the retry sweep exactly the
\* FAILED rows whose next_retry_at is not after now; a changed row becomes
\* PENDING and keeps its retry count, last error, priority, retry limit and
\* creation time; no other row changes; the count returned is the number of
\* changed rows.
C30_SweepFrame ==
    /\ [][StaleSweep =>
            /\ Changed = {m \in Ids : /\ table[m].status = PROCESSING
                                      /\ table[m].updated_at < now - visibilityTimeout}
            /\ \A m \in Changed : SweptTo(table[m], table'[m])
            /\ staleCount = Cardinality(Changed)]_vars
    /\ [][RetrySweep =>
            /\ Changed = {m \in Ids : /\ table[m].status = FAILED
                                      /\ table[m].next_retry_at # NULL
                                      /\ \A t \in table[m].next_retry_at : t <= now}
            /\ \A m \in Changed : SweptTo(table[m], table'[m])
            /\ retryableCount = Cardinality(Changed)]_vars

\* a row that a stale sweep returned to PENDING beside a PROCESSING row that
\* the sweeps left alone
C30_Witness ==
    /\ manualRetries = 0
    /\ \E m, o \in Ids :
          /\ table[m].status = PENDING /\ invoked[m] > 0 /\ table[m].retry_count = 0
          /\ table[o].status = PROCESSING

\* C26: while the loop runs, a FAILED row whose next_retry_at has passed is
\* moved to PENDING by the retry sweep: every retry sweep promotes every such
\* row, and such a row does not wait forever for one.
C26_RetryPromotion ==
    /\ [][RetrySweep => \A m \in Ids : IsRetryable(m) => table'[m].status = PENDING]_vars
    /\ \A m \in Ids : (isRunning /\ IsRetryable(m)) ~> (table[m].status = PENDING)

\* a row that failed once and was promoted by the retry sweep
C26_Witness ==
    /\ isRunning
    /\ \E m \in Ids : /\ table[m].status = PENDING
                       /\ table[m].retry_count > 0
                       /\ table[m].next_retry_at = NULL

\* C27: while the loop runs, a PROCESSING row whose updated_at is older than
\* the visibility timeout is returned to PENDING by the stale sweep: every
\* stale sweep resets every such row, and such a row does not stay stale
\* forever.
C27_StaleReset ==
    /\ [][StaleSweep => \A m \in Ids : IsStale(m) => table'[m].status = PENDING]_vars
    /\ \A m \in Ids : (isRunning /\ IsStale(m)) ~> ~IsStale(m)

\* a row whose handler was invoked and that the stale sweep returned to PENDING
C27_Witness ==
    /\ isRunning
    /\ \E m \in Ids : /\ table[m].status = PENDING
                       /\ invoked[m] > 0
                       /\ table[m].retry_count = 0
                       /\ table[m].updated_at > table[m].created_at

\* C29: a manual retry leaves the row PENDING with retry_count 0, no last_error
\* and no next_retry_at, whatever its status was; and the message then has its
\* whole retry budget again: after the manual retry it is dead-lettered only
\* by its failure number max_retries + 1, that is from retry_count = max_retries.
C29_ManualRetryRestoresBudget ==
    /\ [][\A m \in Ids : retry(m) =>
            /\ table'[m].status = PENDING
            /\ table'[m].retry_count = 0
            /\ table'[m].last_error = NoError
            /\ table'[m].next_retry_at = NULL]_vars
    /\ [][\A m \in Ids :
            (manualRetries > 0 /\ table[m].status # DEAD_LETTER
                               /\ table'[m].status = DEAD_LETTER)
            => table[m].retry_count = table[m].max_retries]_vars

\* the rows a step removed from the table
Removed == {m \in Ids : Exists(m) /\ table'[m].status = ABSENT}

\* C34: no message is lost: a row of the table is in one of the five statuses,
\* and a row leaves the table only in a cleanupCompleted step, as a COMPLETED
\* row older than the horizon, or in a cleanupDeadLetters step, as a
\* DEAD_LETTER row older than the horizon; a PENDING, PROCESSING or FAILED row
\* is never deleted.
C34_NoMessageLost ==
    /\ [](\A m \in Rows : table[m].status \in MessageStatus)
    /\ [][\A m \in Removed :
            \E d \in 0..MaxDays :
               /\ table[m].created_at < now - d * DaySeconds
               /\ \/ cleanupRows(COMPLETED, d) /\ table[m].status = COMPLETED
                  \/ cleanupRows(DEAD_LETTER, d) /\ table[m].status = DEAD_LETTER]_vars

\* an acked row that a cleanup deleted, beside a row that is still to be
\* processed
C34_Witness ==
    \E m, o \in Ids :
        /\ ~Exists(m) /\ acksEver[m] > 0
        /\ table[o].status \in {PENDING, PROCESSING, FAILED}

\* C35: a message whose handler returned normally is never nacked: a failure
\* of the ack call is not recorded as the failure of the message, neither in a
\* nack that is under way nor in the row, which so does not become FAILED or
\* DEAD_LETTER and keeps its retry_count.
C35_ReturnedNeverNacked ==
    /\ \A c \in BagToSet(tasks) : c.snap.last_error # DatabaseFailure
    /\ \A m \in Ids : table[m].last_error # DatabaseFailure

\* call c holds a claim that the stale sweep has revoked and that another
\* consumer has taken since: the row is PROCESSING again, claimed later than c
\* claimed it
Superseded(c) ==
    /\ c.pc \in {"handler", "nacking"}
    /\ table[c.msg].status = PROCESSING
    /\ c.claimedAt < table[c.msg].updated_at

\* C36: once the stale sweep has revoked a consumer's claim and another
\* consumer has re-claimed the message, the late ack or nack of the first
\* consumer does not change the row.
C36_ClaimFencing ==
    [][\A c \in Holding :
         (Superseded(c) /\ (HandlerReturns(c) \/ NackUpdate(c))) => table' = table]_vars

\* C37: every nack that changes a row stores a retry_count exactly one greater
\* than the one the row held just before the UPDATE, whatever happened to the
\* row between the nack's read and its UPDATE.
C37_NoLostIncrement ==
    [][\A c \in Holding :
         (NackUpdate(c) /\ table'[c.msg] # table[c.msg])
            => table'[c.msg].retry_count = table[c.msg].retry_count + 1]_vars

\* C40: at every suspension point of the loop activeWorkers is the number of
\* processing promises in flight and is not negative, and both are 0 when
\* stop() returns.
C40_WorkerAccounting ==
    /\ [](activeWorkers = Executing /\ activeWorkers >= 0)
    /\ [][stopReturns => (activeWorkers' = 0 /\ Executing' = 0)]_vars

\* staleCheckTimeout or retryCheckTimeout refers to a pending timer after the step
armedNext(k) == IF k = "stale" THEN staleArmed' ELSE retryArmed'

\* sweeper k finishes a sweep in this step
Finishes(k) == SweepDone(k) \/ SweepFailed(k)

\* C31: each sweeper keeps its own backoff. A successful sweep clears it; a
\* failed sweep emits an error event and sets it to
\* min(max(1000, 2 * previous), 60000) ms; the next sweep is scheduled the
\* poll interval plus the backoff later; a failure of one sweeper leaves the
\* backoff of the other alone, and on a running loop every finished sweep
\* leaves both sweepers scheduled.
C31_SweeperBackoff ==
    [][\A k \in Sweepers :
          /\ SweepDone(k) => sweeps'[k].backoff = 0
          /\ SweepFailed(k) =>
                /\ BackgroundJobError \in emitted'
                /\ ~escaped'
                /\ sweeps'[k].backoff =
                      Min2(IF 2 * sweeps[k].backoff > 1000
                           THEN 2 * sweeps[k].backoff ELSE 1000, 60000)
                /\ \A j \in Sweepers \ {k} : sweeps'[j].backoff = sweeps[j].backoff
          /\ (Finishes(k) /\ isRunning) =>
                /\ armedNext(k)
                /\ sweeps'[k].lastDelay = 5000 + sweeps'[k].backoff
                /\ \A j \in Sweepers \ {k} : Timers(j) > 0 => armedNext(j)
                                                              \/ sweeps'[j].stray > 0
                                                              \/ sweeps'[j].executing > 0
      ]_vars

\* C32: sweeps of one kind never overlap: for every sequence of start() and
\* stop() calls, a stop() followed by a start() during a sweep included, each
\* sweeper has at most one timer pending or one sweep executing.
C32_NoOverlappingSweeps == \A k \in Sweepers : Timers(k) <= 1

\* C33: on every exit path of stop() on a running loop (normal, a failing
\* UNLISTEN, a failing in-flight handler promise) the listener session that
\* start() acquired has been released.
C33_StopReleasesListener ==
    stopPc \in {"returned", "threw"} => (~listener.client /\ listener.sessions = 0)

\* C38: for every interleaving of start() and stop() calls, a start() issued
\* before an earlier start() has finished included, the instance holds at most
\* one listener session, and every session a start() acquired is released by
\* a later stop(): none is held once stop() has returned and no start() call
\* has begun since.
C38_SingleListener ==
    /\ listener.sessions <= 1
    /\ (stopPc = "returned" /\ ~isRunning /\ Starting = 0) => listener.sessions = 0

\* a start() call has failed while it opened the listener and no call is
\* under way
FailedStart == ~isRunning /\ stopPc = "idle" /\ Starting = 0

\* C39: a start() that fails while it opens the listener (pool.connect() or
\* LISTEN is rejected) leaves the instance not running, with no sweeper armed
\* and no listener session held.
C39_FailedStartNoResidue ==
    FailedStart => /\ \A k \in Sweepers : Timers(k) = 0
                   /\ ~listener.client
                   /\ listener.sessions = 0

====
